---- MODULE Spec2Model ----
(***************************************************************************)
(* Model of sentry.sentry_metrics.indexer.models.MetricsKeyIndexer:        *)
(* the table sentry_metricskeyindexer (string unique, date_added) and the  *)
(* classmethod get_next_values, which runs                                 *)
(*   SELECT nextval('sentry_metricskeyindexer_id_seq')                     *)
(*     from generate_series(1, num)                                        *)
(* and returns cursor.fetchall().                                          *)
(*                                                                         *)
(* The query evaluates nextval once per row of generate_series.  Each      *)
(* nextval is atomic in the storage engine, the statement as a whole is    *)
(* not: rows of statements run by different sessions interleave.  A call   *)
(* is therefore three kinds of step: submit the statement (lines 24-27),   *)
(* one nextval per series row (line 28), fetchall (line 30).               *)
(*                                                                         *)
(* Rows are inserted under ids that get_next_values returned.  The id      *)
(* column's primary key is declared in the base Model; the model does not  *)
(* enforce it, uniqueness of row ids is left to rest on the sequence.      *)
(***************************************************************************)
EXTENDS Integers, Sequences, FiniteSets, TLC

\* ---------------------------------------------------------------- bounds
MaxSeq   == 4      \* sequence values handed out when only ids are reserved
MaxIds   == 2      \* sequence values handed out when rows are inserted too
MaxCount == 2      \* largest num passed to get_next_values
Callers  == {"c1", "c2"}
Strings  == {"a", "b"}
Counts   == {-1} \cup (0..MaxCount)   \* values of num that are tried

VARIABLES
    seq,      \* last value of sentry_metricskeyindexer_id_seq (0: none issued)
    issued,   \* every value nextval has yielded, in the order of issue
    call,     \* caller -> its running call or, when idle, its last call
    held,     \* caller -> rows returned by its last call, not yet used
    table,    \* rows of sentry_metricskeyindexer
    deleted,  \* rows that were deleted, with the time of deletion
    burned,   \* ids reserved and then lost (failed insert, dropped batch),
              \* each with the sequence value at the time it was lost
    tally,    \* string -> insert outcomes since the string was last absent
    now       \* timezone.now, a logical clock

vars == <<seq, issued, call, held, table, deleted, burned, tally, now>>

\* ------------------------------------------------------ pure definitions

\* nextval('sentry_metricskeyindexer_id_seq'): advance by the increment (1)
\* and yield the new value.
NextValStuck(s) == s
NextValWrap(s) == (s % 2) + 1
NextValSkip(s) == s + 2
NextVal(s) == s + 1

\* generate_series(lo, hi): the rows lo, lo+1, ..., hi; no row when hi < lo.
GenerateSeriesFromZero(lo, hi) ==
    IF hi < lo - 1 THEN << >> ELSE [i \in 1..(hi - lo + 2) |-> lo + i - 2]
GenerateSeries(lo, hi) ==
    IF hi < lo THEN << >> ELSE [i \in 1..(hi - lo + 1) |-> lo + i - 1]

\* UniqueConstraint(fields=["string"], name="unique_string"): a row with
\* string s may be added to t only when no row of t carries s.
UniqueStringUnchecked(t, s) == TRUE
UniqueStringOK(t, s) == \A r \in t : r.string # s

\* The value in a fetched row: cursor rows are 1-tuples, (v,).
RowValue(row) == row[1]

\* Values handed out to caller p by its current (or last) call.
Values(p) == {RowValue(call[p].rows[k]) : k \in 1..Len(call[p].rows)}

RemoveAt(s, k) == [i \in 1..(Len(s) - 1) |-> IF i < k THEN s[i] ELSE s[i + 1]]

ZeroTally == [ok |-> 0, err |-> 0]

\* A caller that has not called get_next_values yet.
NoCall ==
    [num |-> 0, rows |-> << >>, state |-> "idle", queried |-> FALSE,
     error |-> "none", seq0 |-> 0, seq1 |-> 0, alone |-> TRUE, after |-> {}]

\* Result rows that the calls in progress have still to draw.
RECURSIVE Demand(_)
Demand(ps) ==
    IF ps = {} THEN 0
    ELSE LET p == CHOOSE q \in ps : TRUE
             d == IF call[p].state = "execute"
                  THEN Len(GenerateSeries(1, call[p].num)) - Len(call[p].rows)
                  ELSE 0
         IN d + Demand(ps \ {p})

\* A call for num values keeps the sequence within limit.
Fits(num, limit) ==
    seq + Demand(Callers) + Len(GenerateSeries(1, num)) <= limit

\* ------------------------------------------------------------------ Init
Init ==
    /\ seq = 0
    /\ issued = << >>
    /\ call = [p \in Callers |-> NoCall]
    /\ held = [p \in Callers |-> << >>]
    /\ table = {}
    /\ deleted = {}
    /\ burned = {}
    /\ tally = [s \in Strings |-> ZeroTally]
    /\ now = 0

\* --------------------------------------------------------------- actions

\* get_next_values(num), lines 23-27: take the write connection's cursor and
\* submit the statement.  No check of num precedes the query.  Rows the
\* caller still held from an earlier call are dropped.  after records the
\* callers whose last call had returned by then.
Call(p, num) ==
    /\ call[p].state # "execute"
    /\ call' = [q \in Callers |->
          IF q = p
          THEN [num |-> num, rows |-> << >>, state |-> "execute",
                queried |-> TRUE, error |-> "none", seq0 |-> seq,
                seq1 |-> seq, alone |-> TRUE,
                after |-> {r \in Callers \ {p} : call[r].state = "returned"}]
          ELSE [call[q] EXCEPT !.after = @ \ {p}]]
    /\ burned' = burned \cup
          {[id |-> RowValue(held[p][k]), at |-> seq] : k \in 1..Len(held[p])}
    /\ held' = [held EXCEPT ![p] = << >>]
    /\ UNCHANGED <<seq, issued, table, deleted, tally, now>>

\* Line 28, one row of the series: nextval advances the sequence and the
\* new value becomes the next result row.  Every other call in progress has
\* then seen a foreign nextval.
NextvalRow(p) ==
    /\ call[p].state = "execute"
    /\ Len(call[p].rows) < Len(GenerateSeries(1, call[p].num))
    /\ seq' = NextVal(seq)
    /\ issued' = Append(issued, seq')
    /\ call' = [q \in Callers |->
          IF q = p THEN [call[q] EXCEPT !.rows = Append(@, <<seq'>>)]
          ELSE IF call[q].state = "execute"
               THEN [call[q] EXCEPT !.alone = FALSE] ELSE call[q]]
    /\ UNCHANGED <<held, table, deleted, burned, tally, now>>

\* Line 30: fetchall returns the result rows to the caller.
Fetchall(p) ==
    /\ call[p].state = "execute"
    /\ Len(call[p].rows) = Len(GenerateSeries(1, call[p].num))
    /\ call' = [call EXCEPT ![p].state = "returned", ![p].seq1 = seq]
    /\ held' = [held EXCEPT ![p] = call[p].rows]
    /\ UNCHANGED <<seq, issued, table, deleted, burned, tally, now>>

\* The insert of one row, checked against unique_string (lines 12-20);
\* date_added defaults to timezone.now (line 13).
AddRow(id, s) ==
    /\ now' = now + 1
    /\ IF UniqueStringOK(table, s)
       THEN /\ table' = table \cup {[id |-> id, string |-> s, date_added |-> now']}
            /\ tally' = [tally EXCEPT ![s].ok = @ + 1]
            /\ burned' = burned
       ELSE /\ table' = table
            /\ tally' = [tally EXCEPT ![s].err = @ + 1]
            /\ burned' = burned \cup {[id |-> id, at |-> seq]}

\* A caller inserts a row under one of the ids it reserved, in any order.
InsertReserved(p, k, s) ==
    /\ call[p].state # "execute"
    /\ k \in 1..Len(held[p])
    /\ AddRow(RowValue(held[p][k]), s)
    /\ held' = [held EXCEPT ![p] = RemoveAt(held[p], k)]
    /\ UNCHANGED <<seq, issued, call, deleted>>

\* Deletion of a row.
DeleteRow(r) ==
    /\ r \in table
    /\ table' = table \ {r}
    /\ deleted' = deleted \cup {[row |-> r, at |-> now]}
    /\ tally' = [tally EXCEPT ![r.string] = ZeroTally]
    /\ UNCHANGED <<seq, issued, call, held, burned, now>>

\* Callers only reserve ids.
NextAlloc ==
    \/ \E p \in Callers, num \in Counts : Fits(num, MaxSeq) /\ Call(p, num)
    \/ \E p \in Callers : NextvalRow(p)
    \/ \E p \in Callers : Fetchall(p)

SpecAlloc == Init /\ [][NextAlloc]_vars

\* Callers reserve ids, insert rows under them and delete rows.
Next ==
    \/ \E p \in Callers, num \in Counts : Fits(num, MaxIds) /\ Call(p, num)
    \/ \E p \in Callers : NextvalRow(p)
    \/ \E p \in Callers : Fetchall(p)
    \/ \E p \in Callers, k \in 1..MaxCount, s \in Strings : InsertReserved(p, k, s)
    \/ \E r \in table : DeleteRow(r)

Spec == Init /\ [][Next]_vars

\* ---------------------------------------------------------------- claims

Returned == {p \in Callers : call[p].state = "returned"}

\* The calls of p and q overlapped in time: neither had returned when the
\* other was submitted.
Concurrent(p, q) ==
    /\ p # q
    /\ call[p].state # "idle" /\ call[q].state # "idle"
    /\ p \notin call[q].after /\ q \notin call[p].after

AllValuesBelow(p, q) == \A v \in Values(p), w \in Values(q) : v < w

\* Every row that ever existed: the table and the deleted rows.
EverCreated == table \cup {d.row : d \in deleted}

\* C1: no integer is returned more than once: the values nextval yields
\* over the whole run are pairwise different, and so are any two result
\* rows, of the same call or of the calls of two callers, concurrent or not.
C1_NoValueReturnedTwice ==
    /\ \A k, l \in 1..Len(issued) : k # l => issued[k] # issued[l]
    /\ \A p, q \in Callers :
          \A k \in 1..Len(call[p].rows), l \in 1..Len(call[q].rows) :
              (p # q \/ k # l) =>
                  RowValue(call[p].rows[k]) # RowValue(call[q].rows[l])

\* Two concurrent calls have both returned a full batch.
C1_Witness ==
    \E p, q \in Returned :
        /\ Concurrent(p, q)
        /\ Len(call[p].rows) = MaxCount
        /\ Len(call[q].rows) = MaxCount

\* C2: a call with num > 0 returns exactly num rows whose values are
\* strictly ascending (hence distinct).
C2_ReturnsCountAscending ==
    \A p \in Returned :
        call[p].num > 0 =>
            /\ Len(call[p].rows) = call[p].num
            /\ \A k, l \in 1..Len(call[p].rows) :
                  k < l => RowValue(call[p].rows[k]) < RowValue(call[p].rows[l])

\* A call for MaxCount values returned after another caller's nextval fell
\* between its own.
C2_Witness ==
    \E p \in Returned :
        /\ call[p].num = MaxCount
        /\ ~call[p].alone
        /\ RowValue(call[p].rows[MaxCount]) > RowValue(call[p].rows[1]) + 1

\* C3 as stated: the [min, max] intervals of the values returned to two
\* concurrent calls never intersect.
C3_ConcurrentRangesDisjoint ==
    \A p, q \in Returned :
        Concurrent(p, q) => AllValuesBelow(p, q) \/ AllValuesBelow(q, p)

\* C3 amended: two concurrent calls never receive a common value, and the
\* values of a call that returned before another was submitted all lie
\* below the values of that later call.
C3_DisjointSetsOrderedWhenSequential ==
    \A p, q \in Callers :
        /\ Concurrent(p, q) => Values(p) \cap Values(q) = {}
        /\ p \in call[q].after => AllValuesBelow(p, q)

\* A call with values returned before another caller's call, which also
\* drew values, was submitted.
C3_Witness ==
    \E p, q \in Returned :
        /\ p \in call[q].after
        /\ call[p].rows # << >>
        /\ call[q].rows # << >>

\* C4 as stated: a call with num <= 0 fails with InvalidArgument and issues
\* no query.
C4_NonPositiveRejected ==
    \A p \in Callers :
        (call[p].state # "idle" /\ call[p].num <= 0) =>
            call[p].error = "InvalidArgument" /\ ~call[p].queried

\* C4 amended: a call with num <= 0 raises nothing; the query is issued,
\* yields no row, the call returns the empty list and does not advance the
\* sequence.
C4_NonPositiveReturnsEmpty ==
    \A p \in Callers :
        (call[p].state # "idle" /\ call[p].num <= 0) =>
            /\ call[p].error = "none"
            /\ call[p].queried
            /\ call[p].rows = << >>
            /\ (call[p].state = "returned" /\ call[p].alone)
                  => call[p].seq1 = call[p].seq0

\* A call with num = 0 and a call with num < 0 have both returned.
C4_Witness ==
    \E p, q \in Returned : call[p].num = 0 /\ call[q].num < 0

\* C5: a call for num > 0 values during which no other call drew from the
\* sequence returns seq0+1 .. seq0+num, seq0 being the sequence value when
\* it was submitted, and leaves the sequence at seq0+num.
C5_UndisturbedCallContiguous ==
    \A p \in Returned :
        (call[p].num > 0 /\ call[p].alone) =>
            /\ call[p].rows = [k \in 1..call[p].num |-> <<call[p].seq0 + k>>]
            /\ call[p].seq1 = call[p].seq0 + call[p].num

\* Two consecutive undisturbed calls returned contiguous blocks.
C5_Witness ==
    \E p, q \in Returned :
        /\ p \in call[q].after
        /\ call[p].alone /\ call[q].alone
        /\ call[p].num = MaxCount /\ call[q].num > 0
        /\ RowValue(call[q].rows[1]) = RowValue(call[p].rows[MaxCount]) + 1

\* C6: of the inserts attempted for one string since that string was last
\* absent from the table, exactly one succeeded, every other one failed on
\* unique_string, and exactly one row carries the string.
C6_OneInsertSucceeds ==
    \A s \in Strings :
        LET n == Cardinality({r \in table : r.string = s})
        IN IF tally[s].ok + tally[s].err = 0
           THEN n = 0
           ELSE tally[s].ok = 1 /\ n = 1

\* Two inserts of the same string: one success, one failure.
C6_Witness ==
    \E s \in Strings : tally[s].ok = 1 /\ tally[s].err = 1

\* C7: no two rows of the table share the same string.
C7_NoDuplicateStrings ==
    \A r1, r2 \in table : r1.string = r2.string => r1 = r2

\* The table holds a row of every string, inserted under reserved ids.
C7_Witness ==
    \A s \in Strings : \E r \in table : r.string = s /\ r.id \in 1..seq

\* C8: no two rows that ever existed, deleted or not, have the same id.
C8_IdNeverReused ==
    \A r1, r2 \in EverCreated : r1 # r2 => r1.id # r2.id

\* A row was deleted and a row with another string was inserted afterwards.
C8_Witness ==
    \E d \in deleted, r \in table :
        r.date_added > d.at /\ r.string # d.row.string

C10_IdsFollowCreationOrder ==
    \A r1, r2 \in table :
        r1 # r2 =>
            /\ r1.id # r2.id
            /\ r1.date_added < r2.date_added => r1.id <= r2.id

\* C10 amended: row ids are unique and each is a value the sequence has
\* issued; they need not follow the order of creation.
C10_IdsUniqueFromSequence ==
    \A r1, r2 \in table :
        /\ r1.id \in 1..seq
        /\ r1 # r2 => r1.id # r2.id

\* A row created later has a smaller id than a row created earlier.
C10_Witness ==
    \E r1, r2 \in table : r1.date_added < r2.date_added /\ r1.id > r2.id
====
